---- MODULE Spec2Model ----
(***************************************************************************)
(* Model of the photo gallery (src/app/page.tsx): the PhotoGallery client  *)
(* component (React state, the two effects, fetchSignedUrl, selection and  *)
(* carousel navigation) and the GET handler of /api/signed-url.            *)
(*                                                                         *)
(* Strings that the code builds by interpolation are sequences of tokens,  *)
(* so that concatenation is \o.  null/undefined is the value NULL and the  *)
(* empty string is <<>>; both are falsy, as in JavaScript.                 *)
(***************************************************************************)
EXTENDS Integers, Sequences, FiniteSets, TLC

(* ------------------------------ bounds -------------------------------- *)
\* number of user clicks (thumbnail clicks and carousel arrows) explored
MaxClicks == 1

(* ----------------------------- constants ------------------------------ *)
IMAGE_FILENAMES == <<"image1.jpg", "image2.jpg", "image3.jpg", "image4.jpg", "image5.jpg">>

DIRECTORY_NAME == "gallery"

NULL == <<"<null>">>

Truthy(v) == v # NULL /\ v # <<>>

\* the empty object literal {} of urls and optimizedUrls
EmptyRecord == [f \in {} |-> <<>>]

\* a[k] = v on a Record<string, string>
RecordSet(a, k, v) == [f \in (DOMAIN a) \cup {k} |-> IF f = k THEN v ELSE a[f]]

\* a[k] read the JavaScript way: undefined when the key is absent
RecordGet(a, k) == IF k \in DOMAIN a THEN a[k] ELSE NULL

VARIABLES selectedImage, currentIndex, optimizedUrls, originalUrl, loading,
          originalLoading, error, errorDetails,
          closureError, urls, loopIdx, loopPc,
          inflight, nextId, clicks,
          thumbLog, firstFailure, lastEvent

\* the GET handler: process.env, the query of the request being served, the
\* await the handler is suspended at, its locals that live across awaits,
\* the calls it made to the storage package and the response it returned
VARIABLES env, searchParams, getPc, filePath, signedUrl, storeCalls, response

serverVars == <<env, searchParams, getPc, filePath, signedUrl, storeCalls, response>>

\* the carousel arithmetic on lists of any length
VARIABLES navLength, navStart, navIndex, navDirection, navCount

navVars == <<navLength, navStart, navIndex, navDirection, navCount>>

clientVars == <<selectedImage, currentIndex, optimizedUrls, originalUrl, loading,
                originalLoading, error, errorDetails,
                closureError, urls, loopIdx, loopPc,
                inflight, nextId, clicks,
                thumbLog, firstFailure, lastEvent>>

(* --------------------- responses the client can see ------------------- *)
\* the URL the service mints for one image
SignedUrlOf(filename, original) ==
  <<"https://storage.googleapis.com/bucket/", DIRECTORY_NAME,
    IF original THEN "/original/" ELSE "/optimized/", filename, "?X-Goog-Signature=s">>

JsonType == <<"application/json">>

HttpResponse(status, contentType, isJson, err, details, url, text) ==
  [type |-> "response", status |-> status, contentType |-> contentType,
   isJson |-> isJson, error |-> err, details |-> details,
   signedUrl |-> url, text |-> text, message |-> NULL, isError |-> FALSE]

Rejection(isError, message) ==
  [type |-> "reject", status |-> 0, contentType |-> NULL,
   isJson |-> FALSE, error |-> NULL, details |-> NULL,
   signedUrl |-> NULL, text |-> <<>>, message |-> message, isError |-> isError]

\* what fetch() can deliver for the request (filename, original)
Responses(filename, original) ==
  { HttpResponse(200, JsonType, TRUE, NULL, NULL, SignedUrlOf(filename, original), <<>>),
    HttpResponse(404, JsonType, TRUE, <<"File not found: ", filename>>, NULL, NULL, <<>>),
    HttpResponse(500, JsonType, TRUE, <<"Storage operation failed: ", "boom">>, <<"stack">>, NULL, <<>>),
    HttpResponse(502, <<"text/html">>, FALSE, NULL, NULL, NULL, <<"Bad Gateway">>),
    HttpResponse(200, <<"text/html">>, FALSE, NULL, NULL, NULL, <<"<html>">>),
    Rejection(TRUE, <<"Failed to fetch">>) }

\* one response for every path through fetchSignedUrl
ResponseShapes ==
  Responses(IMAGE_FILENAMES[1], FALSE) \cup
  { HttpResponse(500, JsonType, TRUE, NULL, NULL, NULL, <<>>),
    HttpResponse(400, JsonType, TRUE, <<"Missing required parameters: directory and filename">>, NULL, NULL, <<>>),
    HttpResponse(200, JsonType, TRUE, <<"service error">>, <<"stack">>, NULL, <<>>),
    HttpResponse(200, JsonType, FALSE, NULL, NULL, NULL, <<"not json">>),
    HttpResponse(200, NULL, FALSE, NULL, NULL, NULL, <<>>),
    Rejection(FALSE, NULL) }

(* --------------------------- fetchSignedUrl --------------------------- *)
\* response.ok
ResponseOk(resp) == resp.status >= 200 /\ resp.status <= 299

\* what fetchSignedUrl does once fetch() has settled: the value it returns,
\* whether it calls setError and with what, and what it passes to
\* setErrorDetails (NULL: setErrorDetails is not called)
FetchSettled(resp) ==
  IF resp.type = "reject"
    THEN [url |-> <<>>, failed |-> TRUE,
          error |-> IF resp.isError THEN resp.message ELSE <<"Unknown error occurred">>,
          details |-> NULL]
  ELSE IF ~ResponseOk(resp)
    THEN IF resp.isJson
           THEN [url |-> <<>>, failed |-> TRUE,
                 error |-> IF Truthy(resp.error) THEN resp.error
                           ELSE <<"Server error: ", ToString(resp.status)>>,
                 details |-> IF Truthy(resp.details) THEN resp.details ELSE NULL]
           ELSE [url |-> <<>>, failed |-> TRUE,
                 error |-> <<"Server error: ", ToString(resp.status), " - ">> \o resp.text,
                 details |-> NULL]
  ELSE IF resp.contentType = NULL \/ resp.contentType # JsonType
    THEN [url |-> <<>>, failed |-> TRUE,
          error |-> <<"Invalid server response format">>, details |-> NULL]
  ELSE IF ~resp.isJson
    THEN [url |-> <<>>, failed |-> TRUE,
          error |-> <<"Unexpected token">>, details |-> NULL]
  ELSE IF Truthy(resp.error)
    THEN [url |-> <<>>, failed |-> TRUE, error |-> resp.error,
          details |-> IF Truthy(resp.details) THEN resp.details ELSE NULL]
  ELSE [url |-> resp.signedUrl, failed |-> FALSE, error |-> NULL, details |-> NULL]

\* the request record put on the wire by fetch()
Request(id, filename, original) == [id |-> id, filename |-> filename, original |-> original]

\* a fetchSignedUrl that keeps the error already shown
ErrorAfterKeepsFirst(out, cur) == IF out.failed /\ ~Truthy(cur) THEN out.error ELSE cur

\* error state after fetchSignedUrl has handled the settled fetch
ErrorAfter(out, cur) == IF out.failed THEN out.error ELSE cur

ErrorDetailsAfter(out, cur) == IF out.failed /\ out.details # NULL THEN out.details ELSE cur

(* ------------------------------ history ------------------------------- *)
\* message of the earliest failed fetchSignedUrl call
FirstFailureAfter(out, cur) == IF out.failed /\ cur = NULL THEN out.error ELSE cur

\* the latest start or failure of a fetchSignedUrl call: a start records the
\* error state it cleared, a failure its message
Started(cleared) == [type |-> "start", message |-> NULL, cleared |-> cleared]

Failed(message) == [type |-> "fail", message |-> message, cleared |-> NULL]

ResultOf(out) == IF out.failed THEN "failed" ELSE IF Truthy(out.url) THEN "ok" ELSE "empty"

(* ------------------------------- client ------------------------------- *)
ClientInit ==
  /\ selectedImage = IMAGE_FILENAMES[1]
  /\ currentIndex = 0
  /\ optimizedUrls = EmptyRecord
  /\ originalUrl = <<>>
  /\ loading = TRUE
  /\ originalLoading = FALSE
  /\ error = NULL
  /\ errorDetails = NULL
  /\ closureError = NULL
  /\ urls = EmptyRecord
  /\ loopIdx = 0
  /\ loopPc = "unmounted"
  /\ inflight = {}
  /\ nextId = 1
  /\ clicks = 0
  /\ thumbLog = <<>>
  /\ firstFailure = NULL
  /\ lastEvent = [type |-> "none", message |-> NULL, cleared |-> NULL]

\* the condition of `if (error) break`: error is the binding of the render
\* whose effect started the loop
LoopBreaks(captured) == Truthy(captured)

\* the element the for-of loop visits after position idx (0: none left)
LoopNext(idx) == IF idx < Len(IMAGE_FILENAMES) THEN idx + 1 ELSE 0

\* a loop that calls fetchSignedUrl for every remaining position at once
IterationFanOut(idx) == idx..Len(IMAGE_FILENAMES)

\* the positions whose fetchSignedUrl call the loop makes when it reaches
\* position idx, before it suspends at `await`
Iteration(idx) == {idx}

\* the requests fetch() sends for the positions P, numbered from id
ThumbnailRequests(P, id) ==
  LET first == CHOOSE m \in P : \A q \in P : m <= q
  IN { Request(id + (p - first), IMAGE_FILENAMES[p], FALSE) : p \in P }

RECURSIVE Pending(_, _)
\* the log entries of the positions from..to, in order
Pending(from, to) ==
  IF from > to THEN <<>>
  ELSE <<[filename |-> IMAGE_FILENAMES[from], result |-> "pending"]>> \o Pending(from + 1, to)

\* the entry of filename in the log takes the result
Logged(log, filename, result) ==
  [k \in DOMAIN log |-> IF log[k].filename = filename THEN [log[k] EXCEPT !.result = result] ELSE log[k]]

\* a loop that stores a placeholder for a filename without URL
CollectedOrPlaceholder(acc, filename, url) ==
  RecordSet(acc, filename, IF Truthy(url) THEN url ELSE <<"/placeholder.svg">>)

\* if (url) urls[filename] = url
Collected(acc, filename, url) ==
  IF Truthy(url) THEN RecordSet(acc, filename, url) ELSE acc

\* a loop that calls setOptimizedUrls after every request
PublishedUrlsEach(finished, shown, acc) == acc

\* what optimizedUrls holds after the loop has handled one settled request:
\* setOptimizedUrls(urls) is called once, after the loop
PublishedUrls(finished, shown, acc) == IF finished THEN acc ELSE shown

\* a loop that returns at a failed request, before setLoading(false)
LoadingAfterLoopUnlessFailed(failed) == failed

\* setLoading(false) after the loop: the value of loading once the loop has
\* handled its last request (failed: that request failed)
LoadingAfterLoop(failed) == FALSE

\* first commit: both effects run, each up to its first await
Mount ==
  LET P      == Iteration(1)
      last   == CHOOSE m \in P : \A q \in P : q <= m
      thumbs == ThumbnailRequests(P, nextId)
      origId == nextId + Cardinality(P)
  IN /\ loopPc = "unmounted"
     /\ closureError' = error
     /\ loading' = TRUE
     /\ urls' = EmptyRecord
     /\ loopIdx' = last
     /\ loopPc' = "awaiting"
     /\ thumbLog' = Pending(1, last)
     /\ error' = NULL
     /\ errorDetails' = NULL
     /\ IF selectedImage # ""
          THEN /\ originalLoading' = TRUE
               /\ inflight' = inflight \cup thumbs \cup { Request(origId, selectedImage, TRUE) }
               /\ nextId' = origId + 1
          ELSE /\ originalLoading' = originalLoading
               /\ inflight' = inflight \cup thumbs
               /\ nextId' = origId
     /\ lastEvent' = Started(error)
     /\ UNCHANGED <<selectedImage, currentIndex, optimizedUrls, originalUrl, clicks, firstFailure>>

\* the thumbnail request r settles: fetchSignedUrl returns into the loop,
\* which either starts the next fetchSignedUrl or leaves the loop
ThumbnailSettles(r, resp) ==
  LET out   == FetchSettled(resp)
      urls1 == Collected(urls, r.filename, out.url)
      nxt   == IF LoopBreaks(closureError) THEN 0 ELSE LoopNext(loopIdx)
      log1  == Logged(thumbLog, r.filename, ResultOf(out))
  IN /\ loopPc = "awaiting"
     /\ r \in inflight
     /\ ~r.original
     /\ urls' = urls1
     /\ firstFailure' = FirstFailureAfter(out, firstFailure)
     /\ optimizedUrls' = PublishedUrls(nxt = 0, optimizedUrls, urls1)
     /\ IF nxt # 0
          THEN LET P    == Iteration(nxt)
                   last == CHOOSE m \in P : \A q \in P : q <= m
               IN /\ loopIdx' = last
                  /\ error' = NULL
                  /\ errorDetails' = NULL
                  /\ inflight' = (inflight \ {r}) \cup ThumbnailRequests(P, nextId)
                  /\ nextId' = nextId + Cardinality(P)
                  /\ thumbLog' = log1 \o Pending(nxt, last)
                  /\ lastEvent' = Started(ErrorAfter(out, error))
                  /\ UNCHANGED <<loading, loopPc>>
          ELSE /\ error' = ErrorAfter(out, error)
               /\ errorDetails' = ErrorDetailsAfter(out, errorDetails)
               /\ inflight' = inflight \ {r}
               /\ thumbLog' = log1
               /\ lastEvent' = IF out.failed THEN Failed(out.error) ELSE lastEvent
               /\ loading' = LoadingAfterLoop(out.failed)
               /\ loopPc' = "done"
               /\ UNCHANGED <<loopIdx, nextId>>
     /\ UNCHANGED <<selectedImage, currentIndex, originalUrl, originalLoading, closureError, clicks>>

\* a loadOriginalImage that drops the result of a request whose filename is
\* no longer the selected one
OriginalUrlIfCurrent(filename, url, selected, shown) ==
  IF filename = selected THEN url ELSE shown

\* setOriginalUrl(url): what originalUrl holds after the request for
\* filename has returned url, selected being the selection at that time
OriginalUrlAfter(filename, url, selected, shown) == url

\* the full-resolution request r settles: the rest of loadOriginalImage runs
OriginalSettles(r, resp) ==
  LET out == FetchSettled(resp)
  IN /\ r \in inflight
     /\ r.original
     /\ inflight' = inflight \ {r}
     /\ error' = ErrorAfter(out, error)
     /\ errorDetails' = ErrorDetailsAfter(out, errorDetails)
     /\ originalUrl' = OriginalUrlAfter(r.filename, out.url, selectedImage, originalUrl)
     /\ originalLoading' = FALSE
     /\ firstFailure' = FirstFailureAfter(out, firstFailure)
     /\ lastEvent' = IF out.failed THEN Failed(out.error) ELSE lastEvent
     /\ UNCHANGED <<selectedImage, currentIndex, optimizedUrls, loading, closureError,
                    urls, loopIdx, loopPc, nextId, clicks, thumbLog>>

\* JavaScript's % : the result takes the sign of the dividend
JsRem(a, n) == IF a >= 0 THEN a % n ELSE -((-a) % n)

\* navigateCarousel without the "+ length" of the prev branch
NewIndexNoWrap(direction, index, n) ==
  IF direction = "prev" THEN JsRem(index - 1, n) ELSE JsRem(index + 1, n)

\* navigateCarousel without the modulo
NewIndexUnbounded(direction, index, n) ==
  IF direction = "prev" THEN index - 1 ELSE index + 1

\* newIndex of navigateCarousel, for a list of length n
NewIndex(direction, index, n) ==
  IF direction = "prev" THEN JsRem(index - 1 + n, n) ELSE JsRem(index + 1, n)

\* IMAGE_FILENAMES[index], undefined (falsy, here "") out of range
ElementAt(index) ==
  IF index >= 0 /\ index < Len(IMAGE_FILENAMES) THEN IMAGE_FILENAMES[index + 1] ELSE ""

\* an effect without its dependency array: it runs after every render
SelectionEffectRunsAlways(before, after) == TRUE

\* the effect with dependencies [selectedImage] runs when the value changed
SelectionEffectRuns(before, after) == after # before

\* handleImageSelect, then the effect on [selectedImage] when it changed
SelectImage(filename, index) ==
  /\ selectedImage' = filename
  /\ currentIndex' = index
  /\ clicks' = clicks + 1
  /\ IF SelectionEffectRuns(selectedImage, filename) /\ filename # ""
       THEN /\ originalLoading' = TRUE
            /\ error' = NULL
            /\ errorDetails' = NULL
            /\ inflight' = inflight \cup { Request(nextId, filename, TRUE) }
            /\ nextId' = nextId + 1
            /\ lastEvent' = Started(error)
       ELSE UNCHANGED <<originalLoading, error, errorDetails, inflight, nextId, lastEvent>>
  /\ UNCHANGED <<optimizedUrls, originalUrl, loading, closureError, urls, loopIdx, loopPc,
                 thumbLog, firstFailure>>

\* onClick of a thumbnail of the carousel (rendered only when loading is false)
HandleImageSelect(index) ==
  /\ ~loading
  /\ clicks < MaxClicks
  /\ SelectImage(ElementAt(index), index)

\* onClick of the ChevronLeft / ChevronRight buttons
NavigateCarousel(direction) ==
  /\ ~loading
  /\ clicks < MaxClicks
  /\ LET newIndex == NewIndex(direction, currentIndex, Len(IMAGE_FILENAMES))
     IN SelectImage(ElementAt(newIndex), newIndex)

ClientNext ==
  \/ Mount
  \/ \E r \in inflight : \E resp \in Responses(r.filename, r.original) : ThumbnailSettles(r, resp)
  \/ \E r \in inflight : \E resp \in Responses(r.filename, r.original) : OriginalSettles(r, resp)
  \/ \E index \in 0..(Len(IMAGE_FILENAMES) - 1) : HandleImageSelect(index)
  \/ \E direction \in {"prev", "next"} : NavigateCarousel(direction)

(* ------------------------------- URLs --------------------------------- *)
\* A URL string is a sequence of tokens in which the characters that the
\* URL parser splits on ("/", "?", "#") are tokens of their own.
Delimiters == {"/", "?", "#"}

\* index of the first token of s at or after i that is in set D (Len(s)+1: none)
RECURSIVE FirstIn(_, _, _)
FirstIn(s, i, D) ==
  IF i > Len(s) THEN Len(s) + 1
  ELSE IF s[i] \in D THEN i
  ELSE FirstIn(s, i + 1, D)

\* new URL(s) for an absolute http(s) URL: valid is FALSE where it throws;
\* pathname is "/" when the URL has no path, and search is "" when the
\* query is absent or empty
ParseURL(s) ==
  LET hostEnd  == FirstIn(s, 4, Delimiters)
      pathEnd  == FirstIn(s, hostEnd, {"?", "#"})
      queryEnd == FirstIn(s, pathEnd, {"#"})
      rawPath  == SubSeq(s, hostEnd, pathEnd - 1)
      rawQuery == SubSeq(s, pathEnd, queryEnd - 1)
  IN IF s = NULL \/ Len(s) < 4 \/ s[1] \notin {"https:", "http:"} \/ s[2] # "/" \/ s[3] # "/"
        \/ hostEnd = 4
       THEN [valid |-> FALSE, origin |-> <<>>, pathname |-> <<>>, search |-> <<>>]
       ELSE [valid |-> TRUE,
             origin |-> SubSeq(s, 1, hostEnd - 1),
             pathname |-> IF rawPath = <<>> THEN <<"/">> ELSE rawPath,
             search |-> IF Len(rawQuery) <= 1 THEN <<>> ELSE rawQuery]

(* ---------------------------- GET handler ----------------------------- *)
\* JSON.parse(process.env.GOOGLE_CLOUD_CREDENTIALS) returns (TRUE) or throws
JsonParses(s) == Len(s) >= 2 /\ s[1] = "{" /\ s[Len(s)] = "}"

\* a handler that parses the inline credentials whenever they are set
CredentialsRejectedAlways(e) == Truthy(e.credentials) /\ ~JsonParses(e.credentials)

\* the credentials branch of the client construction: the key file comes
\* first, the inline credentials are parsed only without one (TRUE: the
\* parse throws)
CredentialsRejected(e) ==
  IF Truthy(e.keyFile) THEN FALSE
  ELSE IF Truthy(e.credentials) THEN ~JsonParses(e.credentials)
  ELSE FALSE

\* a flag that is true for any non-empty value of the parameter
OriginalFlagTruthy(params) == Truthy(params.original)

\* searchParams.get("original") === "true"
OriginalFlag(params) == params.original = <<"true">>

\* const subdirectory = original ? "original" : "optimized"
Subdirectory(original) == IF original THEN "original" ELSE "optimized"

\* a configuration check that forgets the bucket name
MissingConfigurationNoBucket(e) ==
  IF ~Truthy(e.projectId) THEN <<"Google Cloud project ID not configured">>
  ELSE IF ~Truthy(e.keyFile) /\ ~Truthy(e.credentials) THEN <<"Google Cloud credentials not configured">>
  ELSE NULL

\* the configuration check: the error text of the first missing piece
\* (NULL: the configuration is complete)
MissingConfiguration(e) ==
  IF ~Truthy(e.projectId) THEN <<"Google Cloud project ID not configured">>
  ELSE IF ~Truthy(e.bucketName) THEN <<"Google Cloud Storage bucket name not configured">>
  ELSE IF ~Truthy(e.keyFile) /\ ~Truthy(e.credentials) THEN <<"Google Cloud credentials not configured">>
  ELSE NULL

\* a validation that rejects only when both parameters are missing
MissingParametersBoth(params) == ~Truthy(params.directory) /\ ~Truthy(params.filename)

\* !directory || !filename
MissingParameters(params) == ~Truthy(params.directory) \/ ~Truthy(params.filename)

\* a handler that signs without looking at the result of exists()
ObjectAbsentIgnored(result) == FALSE

\* !exists
ObjectAbsent(result) == result = "false"

\* `${directory}/${subdirectory}/${filename}`
FilePath(directory, filename, original) ==
  directory \o <<"/", Subdirectory(original), "/">> \o filename

\* NextResponse.json(body) without the status option: the status is 200
JsonResponseDefaultStatus(status, err, details, url) ==
  [status |-> 200, error |-> err, details |-> details, signedUrl |-> url]

\* NextResponse.json(body, { status })
JsonResponse(status, err, details, url) ==
  [status |-> status, error |-> err, details |-> details, signedUrl |-> url]

NoResponse == JsonResponse(0, NULL, NULL, NULL)

\* a rewrite that drops the query string
FinalUrlNoSearch(cdnEndpoint, storeUrl) ==
  IF Truthy(cdnEndpoint)
    THEN LET url == ParseURL(storeUrl)
         IN IF url.valid
              THEN [threw |-> FALSE, url |-> cdnEndpoint \o url.pathname]
              ELSE [threw |-> TRUE, url |-> <<>>]
    ELSE [threw |-> FALSE, url |-> storeUrl]

\* finalUrl: the CDN rewrite of the store's URL ([threw |-> TRUE] where
\* new URL(signedUrl) throws)
FinalUrl(cdnEndpoint, storeUrl) ==
  IF Truthy(cdnEndpoint)
    THEN LET url == ParseURL(storeUrl)
         IN IF url.valid
              THEN [threw |-> FALSE, url |-> cdnEndpoint \o (url.pathname \o url.search)]
              ELSE [threw |-> TRUE, url |-> <<>>]
    ELSE [threw |-> FALSE, url |-> storeUrl]

\* the values process.env can hold
Environments ==
  [ projectId   : {NULL, <<>>, <<"my-project">>},
    bucketName  : {NULL, <<"my-bucket">>},
    keyFile     : {NULL, <<"key.json">>},
    credentials : {NULL, <<"{", "\"client_email\":1", "}">>, <<"not json">>},
    cdnEndpoint : {NULL,
                   <<"https:", "/", "/", "cdn.example.com">>,
                   <<"https:", "/", "/", "cdn.example.com", "/">>,
                   <<"cdn.example.com">>} ]

\* the query strings a request can carry (NULL: parameter absent)
Queries ==
  [ directory : {NULL, <<>>, <<"gallery">>},
    filename  : {NULL, <<>>, <<"image1.jpg">>},
    original  : {NULL, <<"true">>, <<"false">>, <<"TRUE">>} ]

NoQuery == [directory |-> NULL, filename |-> NULL, original |-> NULL]

\* what file.getSignedUrl can resolve to for the object key
StoreUrls(bucket, key) ==
  { <<"https:", "/", "/", "storage.googleapis.com", "/">> \o bucket \o <<"/">> \o key
       \o <<"?", "X-Goog-Algorithm=GOOG4-RSA-SHA256", "&", "X-Goog-Signature=abc">>,
    <<"https:", "/", "/", "storage.googleapis.com", "?", "X-Goog-Signature=abc">>,
    <<"signed">> }

ServerIdle ==
  /\ searchParams = NoQuery
  /\ getPc = "idle"
  /\ filePath = <<>>
  /\ signedUrl = NULL
  /\ storeCalls = <<>>
  /\ response = NoResponse

ServerInit ==
  /\ env \in Environments
  /\ ServerIdle

Respond(resp) ==
  /\ response' = resp
  /\ getPc' = "responded"

Call(op, key) == [op |-> op, key |-> key, result |-> "pending"]

\* the last call of the log settles with the given result
Settle(calls, result) == [calls EXCEPT ![Len(calls)].result = result]

\* a request arrives: the handler runs up to `await import(...)`
GETReceive(params) ==
  /\ getPc \in {"idle", "responded"}
  /\ searchParams' = params
  /\ signedUrl' = NULL
  /\ IF MissingConfiguration(env) # NULL
       THEN /\ Respond(JsonResponse(500, MissingConfiguration(env), NULL, NULL))
            /\ storeCalls' = <<>>
            /\ filePath' = <<>>
     ELSE IF MissingParameters(params)
       THEN /\ Respond(JsonResponse(400, <<"Missing required parameters: directory and filename">>, NULL, NULL))
            /\ storeCalls' = <<>>
            /\ filePath' = <<>>
     ELSE /\ getPc' = "import"
          /\ response' = NoResponse
          /\ storeCalls' = <<Call("import", <<>>)>>
          /\ filePath' = <<>>
  /\ UNCHANGED env

\* import("@google-cloud/storage") settles: the client is built, the file
\* path computed and file.exists() called
GETImported(imported, constructed) ==
  /\ getPc = "import"
  /\ IF ~imported
       THEN /\ Respond(JsonResponse(500, <<"Google Cloud Storage package not available">>, NULL, NULL))
            /\ storeCalls' = Settle(storeCalls, "throw")
            /\ filePath' = filePath
     ELSE IF CredentialsRejected(env)
       THEN /\ Respond(JsonResponse(500, <<"Invalid Google Cloud credentials format">>, NULL, NULL))
            /\ storeCalls' = Settle(storeCalls, "ok")
            /\ filePath' = filePath
     ELSE IF ~constructed
       THEN /\ Respond(JsonResponse(500, <<"Failed to initialize Google Cloud Storage: ", "init failed">>, NULL, NULL))
            /\ storeCalls' = Append(Settle(storeCalls, "ok"), [Call("new Storage", <<>>) EXCEPT !.result = "throw"])
            /\ filePath' = filePath
     ELSE LET path == FilePath(searchParams.directory, searchParams.filename, OriginalFlag(searchParams))
          IN /\ filePath' = path
             /\ storeCalls' = Append(Append(Settle(storeCalls, "ok"),
                                            [Call("new Storage", <<>>) EXCEPT !.result = "ok"]),
                                     Call("exists", path))
             /\ getPc' = "exists"
             /\ response' = response
  /\ UNCHANGED <<env, searchParams, signedUrl>>

\* file.exists() settles
GETExistsSettled(result) ==
  /\ getPc = "exists"
  /\ IF result = "throw"
       THEN /\ Respond(JsonResponse(500, <<"Storage operation failed: ", "exists failed">>, <<"stack">>, NULL))
            /\ storeCalls' = Settle(storeCalls, "throw")
     ELSE IF ObjectAbsent(result)
       THEN /\ Respond(JsonResponse(404, <<"File not found: ">> \o filePath, NULL, NULL))
            /\ storeCalls' = Settle(storeCalls, result)
     ELSE /\ getPc' = "sign"
          /\ storeCalls' = Append(Settle(storeCalls, result), Call("getSignedUrl", filePath))
          /\ response' = response
  /\ UNCHANGED <<env, searchParams, filePath, signedUrl>>

\* file.getSignedUrl(options) settles
GETSigned(threw, storeUrl) ==
  /\ getPc = "sign"
  /\ IF threw
       THEN /\ Respond(JsonResponse(500, <<"Storage operation failed: ", "signing failed">>, <<"stack">>, NULL))
            /\ storeCalls' = Settle(storeCalls, "throw")
            /\ signedUrl' = signedUrl
       ELSE LET final == FinalUrl(env.cdnEndpoint, storeUrl)
            IN /\ signedUrl' = storeUrl
               /\ storeCalls' = Settle(storeCalls, "ok")
               /\ IF final.threw
                    THEN Respond(JsonResponse(500, <<"Storage operation failed: ", "Invalid URL">>, <<"stack">>, NULL))
                    ELSE Respond(JsonResponse(200, NULL, NULL, final.url))
  /\ UNCHANGED <<env, searchParams, filePath>>

GETNext ==
  \/ \E params \in Queries : GETReceive(params)
  \/ \E imported \in BOOLEAN, constructed \in BOOLEAN : GETImported(imported, constructed)
  \/ \E result \in {"true", "false", "throw"} : GETExistsSettled(result)
  \/ \E threw \in BOOLEAN, storeUrl \in StoreUrls(env.bucketName, filePath) : GETSigned(threw, storeUrl)

(* ----------------------- carousel arithmetic -------------------------- *)
\* longest list explored
MaxLength == 6

NavIdle ==
  /\ navLength = Len(IMAGE_FILENAMES)
  /\ navStart = 0
  /\ navIndex = 0
  /\ navDirection = "none"
  /\ navCount = 0

NavInit ==
  /\ navLength \in 1..MaxLength
  /\ navStart \in 0..(navLength - 1)
  /\ navIndex = navStart
  /\ navDirection = "none"
  /\ navCount = 0

\* one navigateCarousel(direction) on a list of navLength entries; navCount
\* counts the consecutive steps in navDirection made from navStart
NavStep(direction) ==
  /\ navIndex' = NewIndex(direction, navIndex, navLength)
  /\ IF direction = navDirection
       THEN /\ navCount < navLength
            /\ navCount' = navCount + 1
            /\ UNCHANGED <<navStart, navDirection>>
       ELSE /\ navStart' = navIndex
            /\ navDirection' = direction
            /\ navCount' = 1
  /\ UNCHANGED navLength

NavNext == \E direction \in {"prev", "next"} : NavStep(direction)

(* --------------------------- specifications --------------------------- *)
vars == <<clientVars, serverVars, navVars>>

ParkedEnv ==
  [projectId |-> NULL, bucketName |-> NULL, keyFile |-> NULL, credentials |-> NULL,
   cdnEndpoint |-> NULL]

\* the gallery client
Init == ClientInit /\ env = ParkedEnv /\ ServerIdle /\ NavIdle

Next == ClientNext /\ UNCHANGED <<serverVars, navVars>>

Spec == Init /\ [][Next]_vars

\* the gallery client when every request issued is eventually settled
SpecFair ==
  /\ Spec
  /\ WF_vars(Mount /\ UNCHANGED <<serverVars, navVars>>)
  /\ WF_vars((\E r \in inflight : \E resp \in Responses(r.filename, r.original) :
                 ThumbnailSettles(r, resp)) /\ UNCHANGED <<serverVars, navVars>>)
  /\ WF_vars((\E r \in inflight : \E resp \in Responses(r.filename, r.original) :
                 OriginalSettles(r, resp)) /\ UNCHANGED <<serverVars, navVars>>)

\* the GET handler
InitGET == ClientInit /\ ServerInit /\ NavIdle

NextGET == GETNext /\ UNCHANGED <<clientVars, navVars>>

SpecGET == InitGET /\ [][NextGET]_vars

\* navigateCarousel on lists of every length up to MaxLength
InitNav == ClientInit /\ env = ParkedEnv /\ ServerIdle /\ NavInit

NextNav == NavNext /\ UNCHANGED <<clientVars, serverVars>>

SpecNav == InitNav /\ [][NextNav]_vars

(* ------------------------------ claims -------------------------------- *)
\* positions of the thumbnail requests that failed
FailedPositions == { k \in DOMAIN thumbLog : thumbLog[k].result = "failed" }

\* C1: if the k-th thumbnail request is the first one to fail, exactly k
\* thumbnail requests are attempted: none is issued after the failed one.
C1_LoopHaltsOnFirstFailure ==
  \A k \in FailedPositions : Len(thumbLog) = k

\* C2: once a fetchSignedUrl call has failed, the error state holds the
\* message of the earliest failure, whatever starts or succeeds later.
C2_FirstErrorIsKept ==
  firstFailure # NULL => error = firstFailure

\* C2 (amended): the error state is null when the latest start or failure of
\* a fetchSignedUrl call was a start, and the message of the latest failure
\* otherwise.
C2_ErrorIsLatestStartOrFailure ==
  error = (IF lastEvent.type = "fail" THEN lastEvent.message ELSE NULL)

C2_Witness ==
  /\ firstFailure # NULL
  /\ error # NULL
  /\ error # firstFailure

\* the handler has returned the response of the request in searchParams
Responded == getPc = "responded"

\* C3: a request without directory or filename is answered with status 400,
\* whatever the rest of the request is.
C3_MissingParameterIs400 ==
  (Responded /\ (~Truthy(searchParams.directory) \/ ~Truthy(searchParams.filename)))
    => response.status = 400

\* some required piece of configuration is absent
ConfigurationAbsent ==
  \/ ~Truthy(env.projectId)
  \/ ~Truthy(env.bucketName)
  \/ (~Truthy(env.keyFile) /\ ~Truthy(env.credentials))

\* C3 (amended): with the required configuration present, a request without
\* directory or filename is answered with status 400 and without any call to
\* the storage package, whatever the original parameter is; with a piece of
\* configuration absent it is answered with status 500.
C3_MissingParameterIs400WhenConfigured ==
  (Responded /\ (~Truthy(searchParams.directory) \/ ~Truthy(searchParams.filename)))
    => /\ response.status = (IF ConfigurationAbsent THEN 500 ELSE 400)
       /\ storeCalls = <<>>

C3_Witness ==
  /\ Responded
  /\ response.status = 400
  /\ Truthy(searchParams.directory)
  /\ searchParams.filename = <<>>
  /\ searchParams.original = <<"true">>

\* C4: getSignedUrl is called only right after exists() of the same key
\* returned true in the same execution, and a 200 response carries a URL
\* for a key whose existence was confirmed.
C4_SignOnlyAfterExists ==
  /\ \A i \in DOMAIN storeCalls :
       storeCalls[i].op = "getSignedUrl" =>
         /\ i > 1
         /\ storeCalls[i - 1].op = "exists"
         /\ storeCalls[i - 1].key = storeCalls[i].key
         /\ storeCalls[i - 1].result = "true"
  /\ (Responded /\ response.status = 200) =>
       /\ Truthy(response.signedUrl)
       /\ \E i \in DOMAIN storeCalls :
            /\ storeCalls[i].op = "exists"
            /\ storeCalls[i].key = filePath
            /\ storeCalls[i].result = "true"

C4_Witness ==
  /\ Responded
  /\ response.status = 200
  /\ storeCalls[Len(storeCalls)].op = "getSignedUrl"

\* C5: with a required piece of configuration absent the handler answers 500
\* with a configuration error and never imports or constructs the storage
\* client nor calls exists or getSignedUrl, whatever the query is.
C5_ConfigurationErrorFirst ==
  ConfigurationAbsent =>
    /\ storeCalls = <<>>
    /\ getPc \in {"idle", "responded"}
    /\ Responded =>
         /\ response.status = 500
         /\ response.error \in { <<"Google Cloud project ID not configured">>,
                                 <<"Google Cloud Storage bucket name not configured">>,
                                 <<"Google Cloud credentials not configured">> }

C5_Witness ==
  /\ Responded
  /\ Truthy(env.projectId)
  /\ ~Truthy(env.bucketName)
  /\ Truthy(searchParams.directory)
  /\ Truthy(searchParams.filename)
  /\ response.status = 500

\* C6: when exists() reports the object absent the handler answers 404 with
\* the key {directory}/{optimized|original}/{filename} in the error text,
\* "original" exactly when the original parameter is the string "true", and
\* makes no signing call.
C6_AbsentObjectIs404 ==
  (Responded /\ storeCalls # <<>> /\ storeCalls[Len(storeCalls)].op = "exists"
             /\ storeCalls[Len(storeCalls)].result = "false")
    => /\ response.status = 404
       /\ response.error =
            <<"File not found: ">> \o searchParams.directory
              \o <<"/", IF searchParams.original = <<"true">> THEN "original" ELSE "optimized", "/">>
              \o searchParams.filename
       /\ \A i \in DOMAIN storeCalls : storeCalls[i].op # "getSignedUrl"

C6_Witness ==
  /\ Responded
  /\ response.status = 404
  /\ searchParams.original = <<"false">>

\* C7: with a CDN host configured the returned URL has the path and the
\* query string of the store's signed URL and the CDN's host; without one
\* the store's URL is returned unmodified.
C7_CdnKeepsPathAndQuery ==
  (Responded /\ response.status = 200) =>
    IF Truthy(env.cdnEndpoint)
      THEN /\ ParseURL(response.signedUrl).valid
           /\ ParseURL(response.signedUrl).pathname = ParseURL(signedUrl).pathname
           /\ ParseURL(response.signedUrl).search = ParseURL(signedUrl).search
      ELSE response.signedUrl = signedUrl

\* the endpoint is an origin: scheme://host and nothing after the host
IsOrigin(endpoint) == ParseURL(endpoint).valid /\ ParseURL(endpoint).origin = endpoint

\* C7 (amended): with the CDN endpoint configured as an origin (scheme://host
\* with nothing after the host) the returned URL has the path and the query
\* string of the store's signed URL and the endpoint as its origin; with no
\* endpoint configured the store's URL is returned unmodified.
C7_OriginKeepsPathAndQuery ==
  (Responded /\ response.status = 200) =>
    /\ IsOrigin(env.cdnEndpoint) =>
         /\ ParseURL(response.signedUrl).valid
         /\ ParseURL(response.signedUrl).origin = env.cdnEndpoint
         /\ ParseURL(response.signedUrl).pathname = ParseURL(signedUrl).pathname
         /\ ParseURL(response.signedUrl).search = ParseURL(signedUrl).search
    /\ ~Truthy(env.cdnEndpoint) => response.signedUrl = signedUrl

C7_Witness ==
  /\ Responded
  /\ response.status = 200
  /\ IsOrigin(env.cdnEndpoint)
  /\ Len(ParseURL(signedUrl).pathname) > 1
  /\ ParseURL(signedUrl).search # <<>>
  /\ response.signedUrl # signedUrl

\* C8: on a list of any length N >= 1, "next" from i yields (i+1) mod N (0
\* from the last index), "prev" yields (i-1+N) mod N (the last index from
\* 0), "prev" undoes "next", and N consecutive steps in one direction return
\* to the index they started from.
C8_NavigationWraps ==
  /\ \A i \in 0..(navLength - 1) :
       /\ NewIndex("next", i, navLength) = (i + 1) % navLength
       /\ NewIndex("prev", i, navLength) = (i - 1 + navLength) % navLength
       /\ NewIndex("prev", NewIndex("next", i, navLength), navLength) = i
  /\ NewIndex("next", navLength - 1, navLength) = 0
  /\ NewIndex("prev", 0, navLength) = navLength - 1
  /\ navIndex \in 0..(navLength - 1)
  /\ navCount = navLength => navIndex = navStart

C8_Witness ==
  /\ navLength >= 3
  /\ navDirection = "prev"
  /\ navCount = navLength
  /\ navIndex = navStart

\* C9: at most one thumbnail request is in flight, and it is the one of the
\* last position requested: every earlier position has settled.
\* Full-resolution requests can be in flight at the same time.
C9_ThumbnailsSequential ==
  /\ Cardinality({ r \in inflight : ~r.original }) <= 1
  /\ \A k \in DOMAIN thumbLog :
       /\ thumbLog[k].filename = IMAGE_FILENAMES[k]
       /\ k < Len(thumbLog) => thumbLog[k].result # "pending"
       /\ thumbLog[k].result = "pending" =>
            \E r \in inflight : ~r.original /\ r.filename = IMAGE_FILENAMES[k]

C9_Witness ==
  /\ Len(thumbLog) >= 2
  /\ \E r \in inflight : ~r.original
  /\ \E r \in inflight : r.original

\* C10: as soon as the thumbnail request of a filename has returned a URL,
\* the gallery is shown and optimizedUrls has that filename's entry.
C10_RendersOnceResolved ==
  \A f \in DOMAIN urls : ~loading /\ RecordGet(optimizedUrls, f) = urls[f]

\* C10 (amended): the thumbnails are published together when the loop ends:
\* while the loop runs the full-page loading state is shown and
\* optimizedUrls is empty, whatever has resolved; once it has ended,
\* optimizedUrls has an entry for exactly the filenames whose request
\* returned a URL, and the other slots show the placeholder.
C10_RendersWhenLoopEnds ==
  /\ loading => optimizedUrls = EmptyRecord
  /\ (loopPc # "unmounted" /\ ~loading) =>
       /\ loopPc = "done"
       /\ \A r \in inflight : r.original
       /\ \A k \in 1..Len(IMAGE_FILENAMES) :
            IF k \in DOMAIN thumbLog /\ thumbLog[k].result = "ok"
              THEN RecordGet(optimizedUrls, IMAGE_FILENAMES[k]) = SignedUrlOf(IMAGE_FILENAMES[k], FALSE)
              ELSE ~Truthy(RecordGet(optimizedUrls, IMAGE_FILENAMES[k]))

C10_Witness ==
  /\ loading
  /\ urls # EmptyRecord
  /\ optimizedUrls = EmptyRecord
  /\ \E r \in inflight : ~r.original
\* the full-resolution requests in flight
OriginalsInFlight(reqs) == { r \in reqs : r.original }

\* C11: every change of the selected image issues exactly one
\* full-resolution request, for the newly selected filename, whatever the
\* error state is; no other step of the gallery (but the first commit, for
\* the initial selection) issues a full-resolution request: none is retried.
C11_OneRequestPerSelection ==
  [][ LET new == OriginalsInFlight(inflight') \ OriginalsInFlight(inflight)
      IN IF selectedImage' # selectedImage
           THEN /\ new = { Request(nextId, selectedImage', TRUE) }
                /\ OriginalsInFlight(inflight) \subseteq inflight'
         ELSE IF loopPc = "unmounted" /\ loopPc' # "unmounted"
           THEN new = { Request(nextId + 1, selectedImage, TRUE) }
         ELSE new = {} ]_vars

C11_Witness ==
  /\ clicks >= 1
  /\ selectedImage # IMAGE_FILENAMES[1]
  /\ lastEvent.type = "start"
  /\ Truthy(lastEvent.cleared)
  /\ Request(nextId - 1, selectedImage, TRUE) \in inflight

\* the stage at which the execution that has responded failed ("none": no
\* stage failed), read from the configuration, the query and the calls made
FailedStage ==
  IF ConfigurationAbsent THEN "config"
  ELSE IF ~Truthy(searchParams.directory) \/ ~Truthy(searchParams.filename) THEN "validation"
  ELSE IF storeCalls = <<>> THEN "unknown"
  ELSE LET last == storeCalls[Len(storeCalls)]
       IN IF last.op = "import"
            THEN IF last.result = "throw" THEN "import" ELSE "credential-parse"
          ELSE IF last.op = "new Storage" THEN "client-init"
          ELSE IF last.op = "exists"
            THEN IF last.result = "false" THEN "not-found" ELSE "store-operation"
          ELSE IF last.result = "throw" THEN "store-operation"
          ELSE IF Truthy(env.cdnEndpoint) /\ ~ParseURL(signedUrl).valid THEN "store-operation"
          ELSE "none"

FailureStages ==
  {"config", "validation", "import", "credential-parse", "client-init", "not-found", "store-operation"}

\* the status the interface gives to each stage
StageStatus(stage) ==
  IF stage = "none" THEN 200
  ELSE IF stage = "validation" THEN 400
  ELSE IF stage = "not-found" THEN 404
  ELSE 500

\* the texts an error message of each stage starts with
StageMessages(stage) ==
  IF stage = "config"
    THEN {"Google Cloud project ID not configured",
          "Google Cloud Storage bucket name not configured",
          "Google Cloud credentials not configured"}
  ELSE IF stage = "validation" THEN {"Missing required parameters: directory and filename"}
  ELSE IF stage = "import" THEN {"Google Cloud Storage package not available"}
  ELSE IF stage = "credential-parse" THEN {"Invalid Google Cloud credentials format"}
  ELSE IF stage = "client-init" THEN {"Failed to initialize Google Cloud Storage: "}
  ELSE IF stage = "not-found" THEN {"File not found: "}
  ELSE IF stage = "store-operation" THEN {"Storage operation failed: "}
  ELSE {}

C13_StaleResponseOverwrites ==
  [][ /\ selectedImage' # selectedImage => OriginalsInFlight(inflight) \subseteq inflight'
      /\ \A r \in OriginalsInFlight(inflight) \ inflight' :
           originalUrl' \in { SignedUrlOf(r.filename, TRUE), <<>> } ]_vars

C13_Witness ==
  /\ OriginalsInFlight(inflight) = {}
  /\ \E k \in DOMAIN IMAGE_FILENAMES :
       /\ IMAGE_FILENAMES[k] # selectedImage
       /\ originalUrl = SignedUrlOf(IMAGE_FILENAMES[k], TRUE)

\* the carousel shows a thumbnail, not the placeholder, for the filename
ShowsThumbnail(shown, filename) == Truthy(RecordGet(shown, filename))

\* C14: once the thumbnail loop has finished, a slot shows a thumbnail
\* exactly when the request of its filename succeeded, and no later step
\* (selection, navigation, full-resolution response) changes optimizedUrls:
\* the slot of a failed request shows the placeholder forever.
C14_FailedSlotStaysLoading ==
  [][ loopPc' = "done" =>
        /\ \A k \in DOMAIN IMAGE_FILENAMES :
             ShowsThumbnail(optimizedUrls', IMAGE_FILENAMES[k])
               <=> (k \in DOMAIN thumbLog' /\ thumbLog'[k].result = "ok")
        /\ loopPc = "done" => optimizedUrls' = optimizedUrls ]_vars

C14_Witness ==
  /\ loopPc = "done"
  /\ clicks >= 1
  /\ inflight = {}
  /\ thumbLog[2].result = "failed"
  /\ ~ShowsThumbnail(optimizedUrls, IMAGE_FILENAMES[2])
  /\ ShowsThumbnail(optimizedUrls, IMAGE_FILENAMES[3])

\* the handler got as far as building the storage client
ImportSucceeded == storeCalls # <<>> /\ storeCalls[1].op = "import" /\ storeCalls[1].result = "ok"

\* C15: with a key-file path set the inline credentials are not parsed:
\* malformed ones never give the credential-parse error and the client is
\* constructed.  With only inline credentials set and not valid JSON, the
\* handler answers 500 with the credential-parse message, which is not the
\* missing-credentials message, and neither constructs the client nor calls
\* exists or getSignedUrl.
C15_KeyFileTakesPrecedence ==
  (Responded /\ ~ConfigurationAbsent /\ ImportSucceeded) =>
    /\ Truthy(env.keyFile) =>
         /\ response.error # <<"Invalid Google Cloud credentials format">>
         /\ Len(storeCalls) >= 2 /\ storeCalls[2].op = "new Storage"
    /\ (~Truthy(env.keyFile) /\ ~JsonParses(env.credentials)) =>
         /\ response.status = 500
         /\ response.error = <<"Invalid Google Cloud credentials format">>
         /\ response.error # <<"Google Cloud credentials not configured">>
         /\ Len(storeCalls) = 1

C15_Witness ==
  /\ Responded
  /\ Truthy(env.keyFile)
  /\ env.credentials = <<"not json">>
  /\ response.status = 200

C17_LoadingTracksInFlight ==
  OriginalsInFlight(inflight) # {} => originalLoading

\* the response is one of the failures fetchSignedUrl handles: a rejected
\* fetch, a non-OK status, a body or content type that is not JSON, or an
\* error field in the body
IsFailure(resp) ==
  \/ resp.type = "reject"
  \/ resp.status < 200
  \/ resp.status > 299
  \/ resp.contentType # JsonType
  \/ ~resp.isJson
  \/ Truthy(resp.error)

\* C18: when every request issued is eventually settled, the thumbnail loop
\* issues at most N requests and ends, after which loading is false for
\* good, whether the requests succeed or fail; fetchSignedUrl returns on
\* every path, "" with an error message on each failure path.
C18_LoopTerminates ==
  /\ [](/\ Len(thumbLog) <= Len(IMAGE_FILENAMES)
        /\ \A resp \in ResponseShapes :
             LET out == FetchSettled(resp)
             IN /\ out.failed = IsFailure(resp)
                /\ IsFailure(resp) => (out.url = <<>> /\ Truthy(out.error))
                /\ ~IsFailure(resp) => out.url = resp.signedUrl)
  /\ <>[](loopPc = "done" /\ ~loading)
  /\ [][~loading => ~loading']_vars

C18_Witness ==
  /\ loopPc = "done"
  /\ ~loading
  /\ Len(thumbLog) = Len(IMAGE_FILENAMES)
  /\ \A k \in DOMAIN thumbLog : thumbLog[k].result = "failed"

====
